---- MODULE Spec2Model ----
(***************************************************************************)
(* Model of cldfbench_serzantjanicantipassives.py: the conversion of the   *)
(* raw antipassives spreadsheet into CLDF tables (Dataset.cmd_makecldf and *)
(* the module-level helpers it calls).                                     *)
(*                                                                         *)
(* Python strings are modelled as sequences of code points, so that        *)
(* str.strip, str.splitlines, str.format, re.sub and sorted() are computed *)
(* character by character.  A dict is a function whose domain is its key   *)
(* set; where the code depends on a dict's order (the raw csv row, the     *)
(* OrderedDicts handed to the writer) it is a sequence.                    *)
(***************************************************************************)
EXTENDS Integers, Sequences, FiniteSets, TLC

(* The number of rows of raw/Data_to_be_published.csv that are explored. *)
MaxRows == 3

(***************************************************************************)
(* String literals of the source, as code points.                          *)
(***************************************************************************)
(* 'Glottolog.Name' *)
S_GlottologName == <<71, 108, 111, 116, 116, 111, 108, 111, 103, 46, 78, 97, 109, 101>>
(* 'Language' *)
S_Language == <<76, 97, 110, 103, 117, 97, 103, 101>>
(* 'Sub-branch' *)
S_Sub_branch == <<83, 117, 98, 45, 98, 114, 97, 110, 99, 104>>
(* 'Family' *)
S_Family == <<70, 97, 109, 105, 108, 121>>
(* 'Source' *)
S_Source == <<83, 111, 117, 114, 99, 101>>
(* 'AP marker' *)
S_AP_marker == <<65, 80, 32, 109, 97, 114, 107, 101, 114>>
(* 'ap-marker' *)
S_ap_marker == <<97, 112, 45, 109, 97, 114, 107, 101, 114>>
(* 'Type of AP Marker' *)
S_Type_of_AP_Marker == <<84, 121, 112, 101, 32, 111, 102, 32, 65, 80, 32, 77, 97, 114, 107, 101, 114>>
(* 'marker-type' *)
S_marker_type == <<109, 97, 114, 107, 101, 114, 45, 116, 121, 112, 101>>
(* 'FunctionAP' *)
S_FunctionAP == <<70, 117, 110, 99, 116, 105, 111, 110, 65, 80>>
(* 'functions' *)
S_functions == <<102, 117, 110, 99, 116, 105, 111, 110, 115>>
(* 'Polysemy' *)
S_Polysemy == <<80, 111, 108, 121, 115, 101, 109, 121>>
(* 'polysemy' *)
S_polysemy == <<112, 111, 108, 121, 115, 101, 109, 121>>
(* 'Productivity of AP' *)
S_Productivity_of_AP == <<80, 114, 111, 100, 117, 99, 116, 105, 118, 105, 116, 121, 32, 111, 102, 32, 65, 80>>
(* 'productivity' *)
S_productivity == <<112, 114, 111, 100, 117, 99, 116, 105, 118, 105, 116, 121>>
(* 'Obligatoriness of P' *)
S_Obligatoriness_of_P == <<79, 98, 108, 105, 103, 97, 116, 111, 114, 105, 110, 101, 115, 115, 32, 111, 102, 32, 80>>
(* 'p-obligatoriness' *)
S_p_obligatoriness == <<112, 45, 111, 98, 108, 105, 103, 97, 116, 111, 114, 105, 110, 101, 115, 115>>
(* 'Definiteness P' *)
S_Definiteness_P == <<68, 101, 102, 105, 110, 105, 116, 101, 110, 101, 115, 115, 32, 80>>
(* 'p-definiteness' *)
S_p_definiteness == <<112, 45, 100, 101, 102, 105, 110, 105, 116, 101, 110, 101, 115, 115>>
(* 'n/a' *)
S_n_a == <<110, 47, 97>>
(* Python's None, a value no string equals. *)
None == <<-1>>

PARAMETER_COLUMNS ==
    << <<S_AP_marker, S_ap_marker>>,
       <<S_Type_of_AP_Marker, S_marker_type>>,
       <<S_FunctionAP, S_functions>>,
       <<S_Polysemy, S_polysemy>>,
       <<S_Productivity_of_AP, S_productivity>>,
       <<S_Obligatoriness_of_P, S_p_obligatoriness>>,
       <<S_Definiteness_P, S_p_definiteness>> >>

(* {'NI', '_inapplicable', 'NA', 'n/a'} *)
NA_SYNONYMS ==
    { <<78, 73>>,
      <<95, 105, 110, 97, 112, 112, 108, 105, 99, 97, 98, 108, 101>>,
      <<78, 65>>,
      <<110, 47, 97>> }

(***************************************************************************)
(* Python built-ins the code calls, on code-point sequences.               *)
(***************************************************************************)
(* str.isspace for one character (the code points below 256). *)
IsSpace(c) == c \in {9, 10, 11, 12, 13, 28, 29, 30, 31, 32, 133, 160}

RECURSIVE lstrip(_)
lstrip(s) == IF s # <<>> /\ IsSpace(Head(s)) THEN lstrip(Tail(s)) ELSE s

RECURSIVE rstrip(_)
rstrip(s) ==
    IF s # <<>> /\ IsSpace(s[Len(s)]) THEN rstrip(SubSeq(s, 1, Len(s) - 1)) ELSE s

(* str.strip() *)
strip(s) == rstrip(lstrip(s))

(* The line boundaries of str.splitlines (the code points below 256). *)
IsLineBreak(c) == c \in {10, 11, 12, 13, 28, 29, 30, 133}

RECURSIVE splitlines_from(_, _, _)
splitlines_from(s, cur, acc) ==
    IF s = <<>> THEN (IF cur = <<>> THEN acc ELSE Append(acc, cur))
    ELSE IF IsLineBreak(Head(s))
         THEN IF Head(s) = 13 /\ Len(s) > 1 /\ s[2] = 10
              THEN splitlines_from(Tail(Tail(s)), <<>>, Append(acc, cur))
              ELSE splitlines_from(Tail(s), <<>>, Append(acc, cur))
         ELSE splitlines_from(Tail(s), Append(cur, Head(s)), acc)

(* str.splitlines() *)
splitlines(s) == splitlines_from(s, <<>>, <<>>)

(* \w of the re module, for ASCII: letters, digits and the underscore. *)
IsWordChar(c) == c \in (48..57) \cup (65..90) \cup (97..122) \cup {95}

upper(c) == IF c \in 97..122 THEN c - 32 ELSE c

lower(c) == IF c \in 65..90 THEN c + 32 ELSE c

(* str.format of a non-negative int: its decimal digits. *)
RECURSIVE IntToStr(_)
IntToStr(n) ==
    IF n < 10 THEN <<48 + n>> ELSE Append(IntToStr(n \div 10), 48 + (n % 10))

(* The order of str: lexicographic on code points. *)
RECURSIVE LexLess(_, _)
LexLess(a, b) ==
    IF b = <<>> THEN FALSE
    ELSE IF a = <<>> THEN TRUE
    ELSE IF Head(a) # Head(b) THEN Head(a) < Head(b)
    ELSE LexLess(Tail(a), Tail(b))

(* sorted() of a set of strings. *)
RECURSIVE sorted(_)
sorted(S) ==
    IF S = {} THEN <<>>
    ELSE LET m == CHOOSE x \in S : \A y \in S : x = y \/ LexLess(x, y)
         IN  <<m>> \o sorted(S \ {m})

(* dict.get(k, default) *)
Get(d, k, default) == IF k \in DOMAIN d THEN d[k] ELSE default

(* d[k] = v *)
DictSet(d, k, v) == [x \in (DOMAIN d) \cup {k} |-> IF x = k THEN v ELSE d[x]]

Range(s) == {s[i] : i \in 1..Len(s)}

(***************************************************************************)
(* normalise_row, normalise_table                                          *)
(***************************************************************************)
(* A raw row is the sequence of the dict's (key, value) items. *)
RECURSIVE normalise_items(_, _)
normalise_items(items, acc) ==
    IF items = <<>> THEN acc
    ELSE LET k == Head(items)[1]
             v == Head(items)[2]
         IN  normalise_items(
                 Tail(items),
                 IF strip(k) # <<>> /\ strip(v) # <<>>
                 THEN DictSet(acc, strip(k), strip(v))
                 ELSE acc)

(* normalise_row with the values left unstripped: {k.strip(): v ...} *)
RECURSIVE normalise_items_raw_values(_, _)
normalise_items_raw_values(items, acc) ==
    IF items = <<>> THEN acc
    ELSE LET k == Head(items)[1]
             v == Head(items)[2]
         IN  normalise_items_raw_values(
                 Tail(items),
                 IF strip(k) # <<>> /\ strip(v) # <<>>
                 THEN DictSet(acc, strip(k), v)
                 ELSE acc)

normalise_row_raw_values(row) == normalise_items_raw_values(row, <<>>)

normalise_row(row) == normalise_items(row, <<>>)

RECURSIVE normalise_table(_)
normalise_table(table) ==
    IF table = <<>> THEN <<>>
    ELSE LET r == normalise_row(Head(table))
         IN  (IF DOMAIN r # {} THEN <<r>> ELSE <<>>) \o normalise_table(Tail(table))

(***************************************************************************)
(* title_case                                                              *)
(***************************************************************************)
(* re.sub(r'\w+', capitalize): the first character of every run of word   *)
(* characters is upper-cased, the rest of the run lower-cased.             *)
RECURSIVE title_case_from(_, _)
title_case_from(s, inWord) ==
    IF s = <<>> THEN <<>>
    ELSE IF IsWordChar(Head(s))
         THEN <<IF inWord THEN lower(Head(s)) ELSE upper(Head(s))>>
              \o title_case_from(Tail(s), TRUE)
         ELSE <<Head(s)>> \o title_case_from(Tail(s), FALSE)

title_case(s) == title_case_from(s, FALSE)

(***************************************************************************)
(* unify_na                                                                *)
(***************************************************************************)
unify_na(value) == IF value \in NA_SYNONYMS THEN S_n_a ELSE value

(***************************************************************************)
(* The files and the catalog the run reads.                                *)
(***************************************************************************)
(* etc/citations-to-bibtex.csv: rows (key, citation), padded as the file   *)
(* may be: ('k1', 'X'), (' k2', 'Z ').                                     *)
CitationsCsv ==
    << << <<107, 49>>, <<88>> >>,
       << <<32, 107, 50>>, <<90, 32>> >> >>

(* etc/parameters.csv, handed to the writer as read. *)
ParametersCsv == [i \in 1..Len(PARAMETER_COLUMNS) |-> [ID |-> PARAMETER_COLUMNS[i][2]]]

(* The languoids of the Glottolog clone: 'aa' (with a macroarea), 'bb'     *)
(* (without one) and 'aa-ap1', an identifier that looks like a             *)
(* construction ID; the catalog names are 'Q', 'W' and 'V'.                *)
Glottolog ==
    { [id |-> <<97, 97>>, iso |-> <<97, 97, 97>>, name |-> <<81>>,
       macroareas |-> <<[name |-> <<69, 117>>]>>, latitude |-> 1, longitude |-> 2],
      [id |-> <<98, 98>>, iso |-> None, name |-> <<87>>,
       macroareas |-> <<>>, latitude |-> 3, longitude |-> 4],
      [id |-> <<97, 97, 45, 97, 112, 49>>, iso |-> None, name |-> <<86>>,
       macroareas |-> <<[name |-> <<69, 117>>]>>, latitude |-> 5, longitude |-> 6] }

(* glottolog.languoids(ids=...) *)
languoids(ids) == {l \in Glottolog : l.id \in ids}

(* The rows raw/Data_to_be_published.csv may hold, each a sequence of      *)
(* (column, value) items as csv.DictReader yields them.                    *)
RawRows ==
    { (* aa, Language 'ab c', marker 'm', type 'b', Source 'X' *)
      << <<S_GlottologName, <<97, 97>>>>, <<S_Language, <<97, 98, 32, 99>>>>,
         <<S_AP_marker, <<109>>>>, <<S_Type_of_AP_Marker, <<98>>>>,
         <<S_Source, <<88>>>> >>,
      (* aa, no Language, type 'a', function 'a', polysemy 'NI' *)
      << <<S_GlottologName, <<97, 97>>>>, <<S_Type_of_AP_Marker, <<97>>>>,
         <<S_FunctionAP, <<97>>>>, <<S_Polysemy, <<78, 73>>>> >>,
      (* bb, Language 'd', type 'NA', productivity '_inapplicable' *)
      << <<S_GlottologName, <<98, 98>>>>, <<S_Language, <<100>>>>,
         <<S_Type_of_AP_Marker, <<78, 65>>>>,
         <<S_Productivity_of_AP,
           <<95, 105, 110, 97, 112, 112, 108, 105, 99, 97, 98, 108, 101>>>> >>,
      (* bb, type 'n/a', marker 'NA', Source 'X\nY' with Y not in the table *)
      << <<S_GlottologName, <<98, 98>>>>, <<S_Type_of_AP_Marker, <<110, 47, 97>>>>,
         <<S_AP_marker, <<78, 65>>>>, <<S_Source, <<88, 10, 89>>>> >>,
      (* aa-ap1, marker 'm', type 'b' *)
      << <<S_GlottologName, <<97, 97, 45, 97, 112, 49>>>>, <<S_AP_marker, <<109>>>>,
         <<S_Type_of_AP_Marker, <<98>>>> >>,
      (* zz (not in the catalog), Language 'q', type 'c' *)
      << <<S_GlottologName, <<122, 122>>>>, <<S_Language, <<113>>>>,
         <<S_Type_of_AP_Marker, <<99>>>> >>,
      (* no Glottolog.Name: Language 'ab c', type 'a' *)
      << <<S_Language, <<97, 98, 32, 99>>>>, <<S_Type_of_AP_Marker, <<97>>>> >>,
      (* padded: ' Glottolog.Name'=' aa ', 'Language '='e ', type ' c',    *)
      (* Family '  ', ''='x', Source ' X \nZ '                             *)
      << <<<<32>> \o S_GlottologName, <<32, 97, 97, 32>>>>,
         <<S_Language \o <<32>>, <<101, 32>>>>,
         <<S_Type_of_AP_Marker, <<32, 99>>>>, <<S_Family, <<32, 32>>>>,
         <<<<>>, <<120>>>>, <<S_Source, <<32, 88, 32, 10, 90, 32>>>> >>,
      (* a row that is blank after stripping *)
      << <<S_Family, <<32>>>>, <<<<32>>, <<118>>>>, <<S_Source, <<>>>> >>,
      (* aa, obligatoriness 'a', definiteness 'B', Source 'Z\r\nX' *)
      << <<S_GlottologName, <<97, 97>>>>, <<S_Obligatoriness_of_P, <<97>>>>,
         <<S_Definiteness_P, <<66>>>>, <<S_Source, <<90, 13, 10, 88>>>> >>,
      (* bb, Language 'f' twice (the second header padded, value 'g'),     *)
      (* Sub-branch 'h-i', Family 'j', function 'b'                        *)
      << <<S_GlottologName, <<98, 98>>>>, <<S_Language, <<102>>>>,
         <<<<32>> \o S_Language, <<103>>>>, <<S_Sub_branch, <<104, 45, 105>>>>,
         <<S_Family, <<106>>>>, <<S_FunctionAP, <<98>>>> >> }

(***************************************************************************)
(* State of one run of Dataset.cmd_makecldf.                               *)
(***************************************************************************)
VARIABLES
    raw,            (* the rows of raw/Data_to_be_published.csv *)
    pc,             (* the position of the run in cmd_makecldf *)
    err,            (* the exception that ended the run, or "None" *)
    components,     (* the tables declared on args.writer.cldf *)
    data, source_map, lang_info, languages, code_dict, codes,
    constructions, cvalues, ords, index,
    stderr,         (* what was printed to sys.stderr *)
    objects,        (* args.writer.objects *)
    sources_added   (* whether args.writer.cldf.add_sources was called *)

vars ==
    << raw, pc, err, components, data, source_map, lang_info, languages, code_dict,
       codes, constructions, cvalues, ords, index, stderr, objects, sources_added >>

(* An empty dict. *)
EmptyDict == <<>>

Init ==
    /\ raw \in UNION {[1..n -> RawRows] : n \in 0..MaxRows}
    /\ pc = "read"
    /\ err = "None"
    /\ components = {}
    /\ data = <<>>
    /\ source_map = EmptyDict
    /\ lang_info = EmptyDict
    /\ languages = <<>>
    /\ code_dict = <<>>
    /\ codes = <<>>
    /\ constructions = <<>>
    /\ cvalues = <<>>
    /\ ords = EmptyDict
    /\ index = -1
    /\ stderr = <<>>
    /\ objects = EmptyDict
    /\ sources_added = FALSE

(***************************************************************************)
(* Lines 97-130: declare the schema and read the files.                    *)
(***************************************************************************)
RECURSIVE make_source_map(_, _)
make_source_map(rows, acc) ==
    IF rows = <<>> THEN acc
    ELSE make_source_map(
             Tail(rows), DictSet(acc, strip(Head(rows)[2]), strip(Head(rows)[1])))

ReadData ==
    /\ pc = "read"
    /\ components' =
           {"ParameterTable", "LanguageTable", "CodeTable", "constructions.csv",
            "cvalues.csv"}
    /\ data' = normalise_table(raw)
    /\ source_map' = make_source_map(CitationsCsv, EmptyDict)
    /\ pc' = "lang_info"
    /\ UNCHANGED << raw, err, lang_info, languages, code_dict, codes, constructions,
                    cvalues, ords, index, stderr, objects, sources_added >>

(***************************************************************************)
(* Lines 134-142: lang_info.                                               *)
(***************************************************************************)
RECURSIVE make_lang_info(_, _)
make_lang_info(rows, acc) ==
    IF rows = <<>> THEN acc
    ELSE LET row == Head(rows)
         IN  make_lang_info(
                 Tail(rows),
                 DictSet(acc, row[S_GlottologName],
                         [ID |-> row[S_GlottologName],
                          Name |-> title_case(Get(row, S_Language, <<>>)),
                          SubBranch |-> title_case(Get(row, S_Sub_branch, <<>>)),
                          Family |-> title_case(Get(row, S_Family, <<>>))]))

BuildLangInfo ==
    /\ pc = "lang_info"
    /\ IF \E i \in 1..Len(data) : S_GlottologName \notin DOMAIN data[i]
       THEN /\ pc' = "error"
            /\ err' = "KeyError"
            /\ UNCHANGED lang_info
       ELSE /\ lang_info' = make_lang_info(data, EmptyDict)
            /\ pc' = "make_language_table"
            /\ UNCHANGED err
    /\ UNCHANGED << raw, components, data, source_map, languages, code_dict, codes,
                    constructions, cvalues, ords, index, stderr, objects,
                    sources_added >>

(***************************************************************************)
(* Lines 41-65 and 143-145: make_language_table, languages.                *)
(***************************************************************************)
(* collections.ChainMap: a key is looked up in the first map that has it. *)
ChainMap(maps) ==
    [k \in UNION {DOMAIN maps[i] : i \in 1..Len(maps)} |->
        maps[CHOOSE i \in 1..Len(maps) :
                 /\ k \in DOMAIN maps[i]
                 /\ \A j \in 1..(i - 1) : k \notin DOMAIN maps[j]][k]]

(* {k: v for k, v in d.items() if k and v} *)
Truthy(d) == [k \in {x \in DOMAIN d : x # "" /\ d[x] # <<>>} |-> d[k]]

(* The layers with the catalog fields first, so that they win every lookup. *)
language_layers_catalog_first(glottocode, node, info) ==
    << [Name |-> node.name,
        Macroarea |-> IF node.macroareas # <<>> THEN node.macroareas[1].name ELSE <<>>,
        Latitude |-> node.latitude,
        Longitude |-> node.longitude],
       [ID |-> glottocode, Glottocode |-> glottocode, ISO639P3code |-> node.iso],
       Truthy(info) >>

language_layers(glottocode, node, info) ==
    << [ID |-> glottocode, Glottocode |-> glottocode, ISO639P3code |-> node.iso],
       Truthy(info),
       [Name |-> node.name,
        Macroarea |-> IF node.macroareas # <<>> THEN node.macroareas[1].name ELSE <<>>,
        Latitude |-> node.latitude,
        Longitude |-> node.longitude] >>

(* make_language_table leaving out the identifiers the catalog lacks. *)
make_language_table_skip_unknown(info) ==
    LET glottocodes ==
            sorted({info[g].ID : g \in DOMAIN info} \cap {l.id : l \in Glottolog})
        nodemap(g) == CHOOSE l \in Glottolog : l.id = g
    IN  [raised |-> "None",
         value |-> [i \in 1..Len(glottocodes) |->
                       ChainMap(language_layers(
                           glottocodes[i], nodemap(glottocodes[i]),
                           info[glottocodes[i]]))]]

(* The result is [raised |-> the exception or "None", value |-> the list]. *)
make_language_table(info) ==
    LET glottocodes == sorted({info[g].ID : g \in DOMAIN info})
        nodes == languoids(Range(glottocodes))
        nodemap(g) == CHOOSE l \in nodes : l.id = g
    IN  IF \E i \in 1..Len(glottocodes) : \A l \in nodes : l.id # glottocodes[i]
        THEN [raised |-> "KeyError", value |-> <<>>]
        ELSE [raised |-> "None",
              value |-> [i \in 1..Len(glottocodes) |->
                            ChainMap(language_layers(
                                glottocodes[i], nodemap(glottocodes[i]),
                                info[glottocodes[i]]))]]

MakeLanguageTable ==
    /\ pc = "make_language_table"
    /\ LET r == make_language_table(lang_info)
       IN  IF r.raised # "None"
           THEN /\ pc' = "error"
                /\ err' = r.raised
                /\ UNCHANGED languages
           ELSE /\ languages' = r.value
                /\ pc' = "codes"
                /\ UNCHANGED err
    /\ UNCHANGED << raw, components, data, source_map, lang_info, code_dict, codes,
                    constructions, cvalues, ords, index, stderr, objects,
                    sources_added >>

(***************************************************************************)
(* Lines 147-165: code_dict, codes.                                        *)
(***************************************************************************)
(* row.get(column) is truthy *)
HasCell(row, column) == Get(row, column, <<>>) # <<>>

(* The observed values collected without unify_na. *)
observed_values_raw(rows, column) ==
    {rows[i][column] : i \in {j \in 1..Len(rows) : HasCell(rows[j], column)}}

(* {unify_na(row[column]) for row in data if row.get(column)} *)
observed_values(rows, column) ==
    {unify_na(rows[i][column]) : i \in {j \in 1..Len(rows) : HasCell(rows[j], column)}}

(* code_dict as the sequence of its (param_id, code_names) items. *)
RECURSIVE make_code_dict(_, _)
make_code_dict(rows, columns) ==
    IF columns = <<>> THEN <<>>
    ELSE LET column == Head(columns)[1]
             param_id == Head(columns)[2]
         IN  (IF param_id = S_ap_marker
              THEN <<>>
              ELSE << <<param_id, sorted(observed_values(rows, column))>> >>)
             \o make_code_dict(rows, Tail(columns))

(* The code ID numbered from enumerate's index itself, 0-based. *)
code_id_zero_based(param_id, idx) == param_id \o <<45, 99>> \o IntToStr(idx)

(* '{}-c{}'.format(param_id, index + 1), idx being enumerate's 0-based index *)
code_id(param_id, idx) == param_id \o <<45, 99>> \o IntToStr(idx + 1)

(* codes as the sequence of its ((param_id, name), record) items. *)
RECURSIVE make_codes(_)
make_codes(cd) ==
    IF cd = <<>> THEN <<>>
    ELSE LET param_id == Head(cd)[1]
             code_names == Head(cd)[2]
         IN  [i \in 1..Len(code_names) |->
                 << <<param_id, code_names[i]>>,
                    [ID |-> code_id(param_id, i - 1),
                     Parameter_ID |-> param_id,
                     Name |-> code_names[i]] >>]
             \o make_codes(Tail(cd))

(* list(d.values()) of a dict kept as its items *)
Values(items) == [i \in 1..Len(items) |-> items[i][2]]

BuildCodes ==
    /\ pc = "codes"
    /\ code_dict' = make_code_dict(data, PARAMETER_COLUMNS)
    /\ codes' = make_codes(code_dict')
    /\ pc' = IF data = <<>> THEN "output" ELSE "assemble"
    /\ UNCHANGED << raw, err, components, data, source_map, lang_info, languages,
                    constructions, cvalues, ords, index, stderr, objects,
                    sources_added >>

(***************************************************************************)
(* Lines 167-207: one iteration of the loop over the rows.                 *)
(***************************************************************************)
(* '{}-ap{}'.format(lang_id, constr_ord) *)
construction_id(lang_id, constr_ord) == lang_id \o <<45, 97, 112>> \o IntToStr(constr_ord)

(* '{} Antipassive Construction {}'.format(lang_name, constr_ord) *)
construction_name(lang_name, constr_ord) ==
    lang_name
    \o <<32, 65, 110, 116, 105, 112, 97, 115, 115, 105, 118, 101, 32, 67, 111, 110,
         115, 116, 114, 117, 99, 116, 105, 111, 110, 32>>
    \o IntToStr(constr_ord)

(* known_citation(cite): TRUE when cite is a key of source_map; otherwise  *)
(* the call of print evaluates sys.stderr, and the module does not import  *)
(* sys: NameError is raised before anything is printed.                    *)
known_citation(cite, smap) == IF cite \in DOMAIN smap THEN "True" ELSE "NameError"

(* The lines of the row's Source field, in order. *)
citation_lines(row) == splitlines(Get(row, S_Source, <<>>))

(* codes.get((param_id, name), {}).get('ID') *)
code_ref(cs, param_id, name) ==
    IF \E i \in 1..Len(cs) : cs[i][1] = <<param_id, name>>
    THEN cs[CHOOSE i \in 1..Len(cs) : cs[i][1] = <<param_id, name>>][2].ID
    ELSE None

(* The value IDs built from the language instead of the construction. *)
RECURSIVE row_cvalues_by_language(_, _, _, _)
row_cvalues_by_language(row, constr_id, cs, columns) ==
    IF columns = <<>> THEN <<>>
    ELSE LET column == Head(columns)[1]
             param_id == Head(columns)[2]
         IN  (IF HasCell(row, column)
              THEN <<[ID |-> row[S_GlottologName] \o <<45>> \o param_id,
                      Construction_ID |-> constr_id,
                      Parameter_ID |-> param_id,
                      Value |-> unify_na(row[column]),
                      Code_ID |-> code_ref(cs, param_id, unify_na(row[column]))]>>
              ELSE <<>>)
             \o row_cvalues_by_language(row, constr_id, cs, Tail(columns))

(* The dicts cvalues.extend() receives for one row. *)
RECURSIVE row_cvalues(_, _, _, _)
row_cvalues(row, constr_id, cs, columns) ==
    IF columns = <<>> THEN <<>>
    ELSE LET column == Head(columns)[1]
             param_id == Head(columns)[2]
         IN  (IF HasCell(row, column)
              THEN <<[ID |-> constr_id \o <<45>> \o param_id,
                      Construction_ID |-> constr_id,
                      Parameter_ID |-> param_id,
                      Value |-> unify_na(row[column]),
                      Code_ID |-> code_ref(cs, param_id, unify_na(row[column]))]>>
              ELSE <<>>)
             \o row_cvalues(row, constr_id, cs, Tail(columns))

(* ords[lang_id] += 1; constr_ord = ords[lang_id], ords a defaultdict(int) *)
(* One counter shared by all languages. *)
next_ord_shared(counters, lang_id) ==
    Cardinality({k \in DOMAIN counters : k # lang_id})
    + Get(counters, lang_id, 0) + 1

next_ord(counters, lang_id) == Get(counters, lang_id, 0) + 1

(* languages[lang_id], languages being keyed by l['ID'] *)
HasLanguage(langs, lang_id) == \E i \in 1..Len(langs) : langs[i].ID = lang_id

language_of(langs, lang_id) == langs[CHOOSE i \in 1..Len(langs) : langs[i].ID = lang_id]

AssembleRow ==
    /\ pc = "assemble"
    /\ index + 1 < Len(data)
    /\ index' = index + 1
    /\ LET row == data[index' + 1]
           lang_id == row[S_GlottologName]
           constr_ord == next_ord(ords, lang_id)
           constr_id == construction_id(lang_id, constr_ord)
           lines == citation_lines(row)
       IN  IF ~HasLanguage(languages, lang_id)
           THEN /\ pc' = "error"
                /\ err' = "KeyError"
                /\ UNCHANGED << ords, constructions, cvalues >>
           ELSE /\ ords' = DictSet(ords, lang_id, constr_ord)
                /\ IF \E i \in 1..Len(lines) : known_citation(lines[i], source_map) # "True"
                   THEN /\ pc' = "error"
                        /\ err' = "NameError"
                        /\ UNCHANGED << constructions, cvalues >>
                   ELSE /\ constructions' =
                               Append(constructions,
                                      [ID |-> constr_id,
                                       Name |-> construction_name(
                                                    language_of(languages, lang_id).Name,
                                                    constr_ord),
                                       Language_ID |-> lang_id,
                                       Source |-> [i \in 1..Len(lines) |->
                                                      source_map[strip(lines[i])]]])
                        /\ cvalues' =
                               cvalues \o row_cvalues(row, constr_id, codes,
                                                      PARAMETER_COLUMNS)
                        /\ pc' = IF index' + 1 = Len(data) THEN "output" ELSE "assemble"
                        /\ UNCHANGED err
    /\ UNCHANGED << raw, components, data, source_map, lang_info, languages, code_dict,
                    codes, stderr, objects, sources_added >>

(***************************************************************************)
(* Lines 209-217: hand the tables to the writer.                           *)
(***************************************************************************)
Output ==
    /\ pc = "output"
    /\ sources_added' = TRUE
    /\ objects' =
           [t \in {"LanguageTable", "ParameterTable", "CodeTable", "ValueTable",
                   "constructions.csv", "cvalues.csv"} |->
               CASE t = "LanguageTable" -> languages
                 [] t = "ParameterTable" -> ParametersCsv
                 [] t = "CodeTable" -> Values(codes)
                 [] t = "ValueTable" -> <<>>
                 [] t = "constructions.csv" -> constructions
                 [] t = "cvalues.csv" -> cvalues]
    /\ pc' = "done"
    /\ UNCHANGED << raw, err, components, data, source_map, lang_info, languages,
                    code_dict, codes, constructions, cvalues, ords, index, stderr >>

Next ==
    \/ ReadData
    \/ BuildLangInfo
    \/ MakeLanguageTable
    \/ BuildCodes
    \/ AssembleRow
    \/ Output

Spec == Init /\ [][Next]_vars

(***************************************************************************)
(* Vocabulary of the properties.                                           *)
(***************************************************************************)
(* s is non-empty and neither starts nor ends with whitespace. *)
NoPad(s) == s # <<>> /\ ~IsSpace(s[1]) /\ ~IsSpace(s[Len(s)])

Blank(s) == \A i \in 1..Len(s) : IsSpace(s[i])

(* t is s without its leading and trailing whitespace. *)
Trimmed(s, t) ==
    \E a \in 1..(Len(s) + 1) : \E b \in 0..Len(s) :
        /\ t = SubSeq(s, a, b)
        /\ \A i \in 1..(a - 1) : IsSpace(s[i])
        /\ \A i \in (b + 1)..Len(s) : IsSpace(s[i])
        /\ t = <<>> \/ NoPad(t)

(* The cleaned row o is the stripped, blank-filtered image of the raw row r. *)
IsCleanImage(o, r) ==
    /\ \A k \in DOMAIN o :
           \E i \in 1..Len(r) :
               /\ ~Blank(r[i][1]) /\ ~Blank(r[i][2])
               /\ Trimmed(r[i][1], k) /\ Trimmed(r[i][2], o[k])
    /\ \A i \in 1..Len(r) :
           (~Blank(r[i][1]) /\ ~Blank(r[i][2])) =>
               \E k \in DOMAIN o : Trimmed(r[i][1], k)

CatalogIds == {l.id : l \in Glottolog}

(* Every cleaned row names a language, and the catalog has all of them. *)
AllLanguagesInCatalog ==
    \A i \in 1..Len(data) :
        S_GlottologName \in DOMAIN data[i] /\ data[i][S_GlottologName] \in CatalogIds

(* The 1-based position of row i among the rows of its language. *)
OrdinalOf(i) ==
    Cardinality({j \in 1..i : data[j][S_GlottologName] = data[i][S_GlottologName]})

(* The non-empty fixed-parameter cells of the first n cleaned rows. *)
Cells(n) ==
    {ic \in (1..n) \X (1..Len(PARAMETER_COLUMNS)) :
        PARAMETER_COLUMNS[ic[2]][1] \in DOMAIN data[ic[1]]}

(* The NA-unified value of cell (row i, column c). *)
UnifiedCell(i, c) ==
    LET v == data[i][PARAMETER_COLUMNS[c][1]]
    IN  IF v \in {<<78, 73>>, <<78, 65>>, <<110, 47, 97>>,
                  <<95, 105, 110, 97, 112, 112, 108, 105, 99, 97, 98, 108, 101>>}
        THEN <<110, 47, 97>> ELSE v

(* The unified values observed in column c over all cleaned rows. *)
Observed(c) == {UnifiedCell(ic[1], c) : ic \in {x \in Cells(Len(data)) : x[2] = c}}

CodesBuilt == pc \in {"assemble", "output", "done"}

CodeRecords == {codes[i][2] : i \in 1..Len(codes)}

(* The lines of row i's Source field whose stripped text the table lacks. *)
UnknownLines(i) ==
    LET lines == splitlines(Get(data[i], S_Source, <<>>))
    IN  {n \in 1..Len(lines) : strip(lines[n]) \notin DOMAIN source_map}

(* The loop over the rows has begun the iteration of row i. *)
Started(i) == pc \in {"assemble", "output", "done", "error"} /\ i <= index + 1

AllHandedOver ==
    /\ sources_added
    /\ DOMAIN objects = {"LanguageTable", "ParameterTable", "CodeTable", "ValueTable",
                         "constructions.csv", "cvalues.csv"}
    /\ objects["LanguageTable"] = languages
    /\ objects["CodeTable"] = Values(codes)
    /\ objects["constructions.csv"] = constructions
    /\ objects["cvalues.csv"] = cvalues

(***************************************************************************)
(* C10.  normalise_table: every key and value of every cleaned row is      *)
(* non-empty and has no leading or trailing whitespace; every cleaned row  *)
(* is non-empty and is the stripped, blank-filtered image of a raw row;    *)
(* the raw rows that are not the source of a cleaned row have no item      *)
(* left after filtering; and the cleaned rows are in the order of the raw  *)
(* rows they come from.  (Stated of data as normalise_table returns it;    *)
(* nothing assigns data afterwards.)                                       *)
(***************************************************************************)
C10_NormaliseTable ==
    pc = "lang_info" =>
        /\ \A j \in 1..Len(data) :
               /\ DOMAIN data[j] # {}
               /\ \A k \in DOMAIN data[j] : NoPad(k) /\ NoPad(data[j][k])
        /\ \E kept \in SUBSET (1..Len(raw)) :
               (* the j-th cleaned row comes from the j-th smallest kept index *)
               /\ Cardinality(kept) = Len(data)
               /\ \A i \in kept :
                      IsCleanImage(data[Cardinality({j \in kept : j <= i})], raw[i])
               /\ \A i \in (1..Len(raw)) \ kept :
                      \A n \in 1..Len(raw[i]) :
                          Blank(raw[i][n][1]) \/ Blank(raw[i][n][2])

(* A blank row was dropped between two surviving rows, one of them padded. *)
C10_Witness ==
    /\ pc = "lang_info"
    /\ Len(raw) = 3 /\ Len(data) = 2
    /\ \A n \in 1..Len(raw[2]) : Blank(raw[2][n][1]) \/ Blank(raw[2][n][2])
    /\ \E n \in 1..Len(raw[3]) : ~Blank(raw[3][n][2]) /\ ~NoPad(raw[3][n][2])
    /\ raw[1] # raw[3]

(***************************************************************************)
(* C6.  Construction numbering: the i-th Construction belongs to the i-th  *)
(* cleaned row; its ID is <language-id>-ap<k> and its Name is              *)
(* '<language name> Antipassive Construction <k>', k being the 1-based     *)
(* position of the row among the rows of its language; the IDs are         *)
(* pairwise distinct; and when the loop is over there is one Construction  *)
(* per cleaned row, which is what the writer receives.                     *)
(***************************************************************************)
C6_ConstructionNumbering ==
    /\ \A i \in 1..Len(constructions) :
           LET g == data[i][S_GlottologName]
               k == IntToStr(OrdinalOf(i))
           IN  /\ i <= Len(data)
               /\ constructions[i].Language_ID = g
               /\ constructions[i].ID = g \o <<45, 97, 112>> \o k
               /\ \E n \in 1..Len(languages) :
                      /\ languages[n].ID = g
                      /\ constructions[i].Name =
                             languages[n].Name
                             \o <<32, 65, 110, 116, 105, 112, 97, 115, 115, 105, 118,
                                  101, 32, 67, 111, 110, 115, 116, 114, 117, 99, 116,
                                  105, 111, 110, 32>>
                             \o k
    /\ \A i \in 1..Len(constructions) : \A j \in 1..Len(constructions) :
           i # j => constructions[i].ID # constructions[j].ID
    /\ pc \in {"output", "done"} => Len(constructions) = Len(data)
    /\ pc = "done" => objects["constructions.csv"] = constructions

(* A completed run over three rows, the rows of one language separated by  *)
(* a row of another.                                                       *)
C6_Witness ==
    /\ pc = "done"
    /\ Len(data) = 3
    /\ data[1][S_GlottologName] = data[3][S_GlottologName]
    /\ data[1][S_GlottologName] # data[2][S_GlottologName]
    /\ constructions[3].ID = data[3][S_GlottologName] \o <<45, 97, 112, 50>>
    /\ constructions[2].ID = data[2][S_GlottologName] \o <<45, 97, 112, 49>>

(***************************************************************************)
(* C9.  ConstructionValues: after n rows there is exactly one value per    *)
(* non-empty fixed-parameter cell of those rows and no other; the value of *)
(* cell (row i, column c) has the ID <construction-id of row i>-<parameter *)
(* id of c>, the Construction_ID of row i's Construction, c's parameter    *)
(* and the NA-unified cell as its Value; the IDs are pairwise distinct;    *)
(* and when the loop is over all rows are covered and the writer receives  *)
(* these values.                                                           *)
(***************************************************************************)
C9_OneValuePerCell ==
    LET n == Len(constructions)
    IN  /\ Len(cvalues) = Cardinality(Cells(n))
        /\ \A ic \in Cells(n) :
               LET i == ic[1]
                   param_id == PARAMETER_COLUMNS[ic[2]][2]
                   hits == {m \in 1..Len(cvalues) :
                               cvalues[m].ID =
                                   constructions[i].ID \o <<45>> \o param_id}
               IN  /\ Cardinality(hits) = 1
                   /\ \A m \in hits :
                          /\ cvalues[m].Construction_ID = constructions[i].ID
                          /\ cvalues[m].Parameter_ID = param_id
                          /\ cvalues[m].Value = UnifiedCell(i, ic[2])
        /\ \A m \in 1..Len(cvalues) : \A q \in 1..Len(cvalues) :
               m # q => cvalues[m].ID # cvalues[q].ID
        /\ \A m \in 1..Len(cvalues) :
               \E i \in 1..n : cvalues[m].Construction_ID = constructions[i].ID
        /\ pc \in {"output", "done"} => n = Len(data)
        /\ pc = "done" => objects["cvalues.csv"] = cvalues

(* A completed run over two rows of one language, with an NA synonym in a  *)
(* cell, a row with four cells and columns that are absent.                *)
C9_Witness ==
    /\ pc = "done"
    /\ Len(data) >= 2
    /\ data[1][S_GlottologName] = data[2][S_GlottologName]
    /\ Len(cvalues) >= 4
    /\ Len(cvalues) < Len(data) * Len(PARAMETER_COLUMNS)
    /\ \E ic \in Cells(Len(data)) :
           data[ic[1]][PARAMETER_COLUMNS[ic[2]][1]] # UnifiedCell(ic[1], ic[2])

(***************************************************************************)
(* C7.  Value-code linkage: the Code_ID of every ConstructionValue of a    *)
(* parameter other than 'ap-marker' is present and is the ID of exactly    *)
(* one record of the code table, whose Parameter_ID and Name are the       *)
(* value's Parameter_ID and Value; the Code_ID of every value of           *)
(* 'ap-marker' is absent.                                                  *)
(***************************************************************************)
C7_ValueCodeLinkage ==
    \A m \in 1..Len(cvalues) :
        IF cvalues[m].Parameter_ID = S_ap_marker
        THEN cvalues[m].Code_ID = None
        ELSE /\ cvalues[m].Code_ID # None
             /\ \E c \in CodeRecords :
                    /\ c.ID = cvalues[m].Code_ID
                    /\ c.Parameter_ID = cvalues[m].Parameter_ID
                    /\ c.Name = cvalues[m].Value
             /\ Cardinality({i \in 1..Len(codes) : codes[i][2].ID = cvalues[m].Code_ID}) = 1

(* Values of the marker and of another parameter exist, one of them coded  *)
(* from an NA synonym, and the tables are with the writer.                 *)
C7_Witness ==
    /\ pc = "done"
    /\ \E m \in 1..Len(cvalues) : cvalues[m].Parameter_ID = S_ap_marker
    /\ \E ic \in Cells(Len(data)) :
           /\ PARAMETER_COLUMNS[ic[2]][2] # S_ap_marker
           /\ data[ic[1]][PARAMETER_COLUMNS[ic[2]][1]] # UnifiedCell(ic[1], ic[2])
    /\ \E m \in 1..Len(cvalues) :
           cvalues[m].Parameter_ID # S_ap_marker /\ cvalues[m].Value # S_n_a

(***************************************************************************)
(* C8.  Code vocabulary: for every fixed parameter except 'ap-marker' the  *)
(* names of its codes are exactly the NA-unified values observed in its    *)
(* column, one code per value, and the code of a value v has the ID        *)
(* <parameter>-c<i>, i being 1 plus the number of observed values that     *)
(* sort before v; code IDs are pairwise distinct, codes follow each other  *)
(* by parameter and then by name, and 'ap-marker' has no code.             *)
(***************************************************************************)
C8_CodeVocabulary ==
    CodesBuilt =>
        /\ \A c \in 1..Len(PARAMETER_COLUMNS) :
               LET param_id == PARAMETER_COLUMNS[c][2]
                   mine == {i \in 1..Len(codes) : codes[i][2].Parameter_ID = param_id}
               IN  IF param_id = S_ap_marker
                   THEN mine = {}
                   ELSE /\ {codes[i][2].Name : i \in mine} = Observed(c)
                        /\ Cardinality(mine) = Cardinality(Observed(c))
                        /\ \A i \in mine :
                               /\ codes[i][1] = <<param_id, codes[i][2].Name>>
                               /\ codes[i][2].ID =
                                      param_id \o <<45, 99>>
                                      \o IntToStr(1 + Cardinality(
                                             {v \in Observed(c) :
                                                 LexLess(v, codes[i][2].Name)}))
        /\ \A i \in 1..Len(codes) :
               \E c \in 1..Len(PARAMETER_COLUMNS) :
                   codes[i][2].Parameter_ID = PARAMETER_COLUMNS[c][2]
        /\ \A i \in 1..Len(codes) : \A j \in 1..Len(codes) :
               i # j => codes[i][2].ID # codes[j][2].ID
        /\ \A i \in 1..Len(codes) : \A j \in 1..Len(codes) :
               (i < j /\ codes[i][2].Parameter_ID = codes[j][2].Parameter_ID) =>
                   LexLess(codes[i][2].Name, codes[j][2].Name)
        /\ pc = "done" => objects["CodeTable"] = Values(codes)

(* One parameter has three codes, 'n/a' (from a synonym) among them, and   *)
(* one value is a code of two parameters.                                  *)
C8_Witness ==
    /\ CodesBuilt
    /\ \E c \in 1..Len(PARAMETER_COLUMNS) :
           /\ Cardinality(Observed(c)) = 3
           /\ S_n_a \in Observed(c)
           /\ \E i \in 1..Len(data) :
                  /\ PARAMETER_COLUMNS[c][1] \in DOMAIN data[i]
                  /\ data[i][PARAMETER_COLUMNS[c][1]] \in NA_SYNONYMS \ {S_n_a}
    /\ \E i \in 1..Len(codes) : \E j \in 1..Len(codes) :
           /\ codes[i][2].Name = codes[j][2].Name
           /\ codes[i][2].Parameter_ID # codes[j][2].Parameter_ID

(***************************************************************************)
(* C4.  When a cleaned row names a language the catalog lacks, the run     *)
(* never gets past make_language_table: it ends in a KeyError, no table    *)
(* object of the writer is assigned and no sources are added.              *)
(***************************************************************************)
C4_CatalogMissIsFatal ==
    (/\ pc # "read"
     /\ \E i \in 1..Len(data) :
            /\ S_GlottologName \in DOMAIN data[i]
            /\ data[i][S_GlottologName] \notin CatalogIds)
    => /\ pc \in {"lang_info", "make_language_table", "error"}
       /\ pc = "error" => err = "KeyError"
       /\ DOMAIN objects = {}
       /\ ~sources_added
       /\ languages = <<>> /\ codes = <<>> /\ constructions = <<>> /\ cvalues = <<>>

(* The run has ended in make_language_table: every row names a language,   *)
(* one of them known to the catalog and one not.                           *)
C4_Witness ==
    /\ pc = "error" /\ err = "KeyError"
    /\ lang_info # EmptyDict
    /\ \E i \in 1..Len(data) : data[i][S_GlottologName] \notin CatalogIds
    /\ \E i \in 1..Len(data) : data[i][S_GlottologName] \in CatalogIds

(***************************************************************************)
(* C2 as stated.  Whenever the locally derived record supplies a non-empty *)
(* Name, Macroarea, Latitude or Longitude, the language record carries the *)
(* catalog's value of that field.                                          *)
(***************************************************************************)
C2_CatalogWins ==
    \A n \in 1..Len(languages) :
        LET l == languages[n]
            node == CHOOSE x \in Glottolog : x.id = l.ID
            local == lang_info[l.ID]
            catalog == [Name |-> node.name,
                        Macroarea |-> IF node.macroareas # <<>>
                                      THEN node.macroareas[1].name ELSE <<>>,
                        Latitude |-> node.latitude,
                        Longitude |-> node.longitude]
        IN  \A field \in DOMAIN catalog :
                (field \in DOMAIN local /\ local[field] # <<>>) =>
                    l[field] = catalog[field]

(***************************************************************************)
(* C2 as amended.  The Name of a language record is the locally derived    *)
(* name (the title-cased Language cell of the last row of that language)   *)
(* whenever that is non-empty, and the catalog's name only otherwise;      *)
(* Macroarea, Latitude and Longitude, which the local record never         *)
(* supplies, are the catalog's: the catalog is the lowest-priority layer.  *)
(***************************************************************************)
C2_LocalNameWins ==
    \A n \in 1..Len(languages) :
        LET l == languages[n]
            node == CHOOSE x \in Glottolog : x.id = l.ID
            last == CHOOSE i \in 1..Len(data) :
                        /\ data[i][S_GlottologName] = l.ID
                        /\ \A j \in (i + 1)..Len(data) : data[j][S_GlottologName] # l.ID
        IN  /\ l.ID \in CatalogIds
            /\ \E i \in 1..Len(data) : data[i][S_GlottologName] = l.ID
            /\ IF S_Language \in DOMAIN data[last]
               THEN l.Name = title_case(data[last][S_Language]) /\ l.Name # <<>>
               ELSE l.Name = node.name
            /\ l.Macroarea = (IF node.macroareas # <<>>
                              THEN node.macroareas[1].name ELSE <<>>)
            /\ l.Latitude = node.latitude
            /\ l.Longitude = node.longitude
            /\ {"Name", "Macroarea", "Latitude", "Longitude"} \cap DOMAIN lang_info[l.ID]
                   = {"Name"}

(* Two language records: one whose rows give a name that differs from the  *)
(* catalog's, one whose last row gives none.                               *)
C2_Witness ==
    /\ Len(languages) = 2
    /\ \E n \in 1..2 :
           /\ lang_info[languages[n].ID].Name # <<>>
           /\ lang_info[languages[n].ID].Name #
                  (CHOOSE x \in Glottolog : x.id = languages[n].ID).name
    /\ \E n \in 1..2 : lang_info[languages[n].ID].Name = <<>>

(***************************************************************************)
(* C1 as stated.  A row with a citation line the table lacks is a soft     *)
(* failure: once its iteration has begun the run is not in error, a        *)
(* diagnostic with the row number and the citation is on stderr, its       *)
(* Construction exists with exactly the known citations as Source, and a   *)
(* run that is done has handed all tables to the writer.                   *)
(***************************************************************************)
C1_UnknownCitationIsSoft ==
    \A i \in 1..Len(data) :
        (Started(i) /\ UnknownLines(i) # {}) =>
            LET lines == splitlines(Get(data[i], S_Source, <<>>))
                known == SelectSeq(lines, LAMBDA c : strip(c) \in DOMAIN source_map)
            IN  /\ pc # "error"
                /\ \A n \in UnknownLines(i) :
                       \E d \in 1..Len(stderr) : stderr[d] = <<i + 1, lines[n]>>
                /\ Len(constructions) >= i
                /\ constructions[i].Source =
                       [n \in 1..Len(known) |-> source_map[strip(known[n])]]
                /\ pc = "done" => AllHandedOver

(***************************************************************************)
(* C3 as stated.  The lines of a row's Source field are stripped before    *)
(* the lookup: when the stripped text of every line is a key of the table, *)
(* the row's Construction exists once its iteration has begun, and its     *)
(* Source is the list of the mapped keys in line order.                    *)
(***************************************************************************)
C3_LinesStrippedBeforeLookup ==
    \A i \in 1..Len(data) :
        (Started(i) /\ UnknownLines(i) = {}) =>
            LET lines == splitlines(Get(data[i], S_Source, <<>>))
            IN  /\ Len(constructions) >= i
                /\ constructions[i].Source =
                       [n \in 1..Len(lines) |-> source_map[strip(lines[n])]]

(***************************************************************************)
(* C5 as stated.  When every cleaned row names a language of the catalog,  *)
(* the run does not abort, and once done has handed all tables over.       *)
(***************************************************************************)
C5_OnlyCatalogMissAborts ==
    (pc # "read" /\ AllLanguagesInCatalog) =>
        /\ pc # "error"
        /\ pc = "done" => AllHandedOver

====
